---- MODULE Spec2Model ----
(***************************************************************************)
(* Model of miner_exporter.py: the scrape loop (__main__), stats(), the    *)
(* MinerExporter constructor and collectors, safe_get_json and the field   *)
(* coercion helpers try_int / try_float.                                   *)
(*                                                                         *)
(* Text is modelled as a sequence of one-character strings, so that the    *)
(* regular expressions, str.split, str.strip, int() and float() are        *)
(* computed character by character.  A float is a fixed-point integer with *)
(* FracDigits decimal places.                                              *)
(***************************************************************************)
EXTENDS Integers, Sequences, FiniteSets, TLC

VARIABLES
    pc,        \* position of the single worker in the __main__ loop / stats()
    cycle,     \* number of completed sleeps (bounded by MaxCycles)
    exporter,  \* the MinerExporter bound in the running stats() frame
    hval,      \* the shared default argument of collect_hbbft_performance
    sink,      \* prometheus registry: label tuple -> current value
    out,       \* output of the last exec_run of the running cycle
    ran,       \* collectors invoked in the running (or just ended) cycle
    logged,    \* log.error records of the running (or just ended) cycle
    raised,    \* exception that ended the last stats() call, "none" if it returned
    tok,       \* argument of the coercion call under test
    coerced    \* result of the coercion call under test

vars == <<pc, cycle, exporter, hval, sink, out, ran, logged, raised, tok, coerced>>

loopVars == <<pc, cycle, exporter, hval, sink, out, ran, logged, raised>>

(***************************************************************************)
(* Bounds                                                                  *)
(***************************************************************************)
MaxCycles == 3

MaxTokLen == 3

MaxPeerRows == 3

MaxKeyLines == 3

FracDigits == 3

(***************************************************************************)
(* Values: Python int, float and str objects                               *)
(***************************************************************************)
PyInt(n) == [t |-> "int", n |-> n, s |-> <<>>]

PyFloat(n) == [t |-> "float", n |-> n, s |-> <<>>]

PyStr(s) == [t |-> "str", n |-> 0, s |-> s]

Returned(val) == [exc |-> "none", val |-> val]

Raise(kind) == [exc |-> kind, val |-> PyStr(<<>>)]

RECURSIVE Pow10(_)
Pow10(k) == IF k = 0 THEN 1 ELSE 10 * Pow10(k - 1)

Digits == {"0", "1", "2", "3", "4", "5", "6", "7", "8", "9"}

DigitVal(c) ==
    CASE c = "0" -> 0 [] c = "1" -> 1 [] c = "2" -> 2 [] c = "3" -> 3
      [] c = "4" -> 4 [] c = "5" -> 5 [] c = "6" -> 6 [] c = "7" -> 7
      [] c = "8" -> 8 [] c = "9" -> 9

All(s, S) == \A i \in 1..Len(s) : s[i] \in S

Count(s, c) == Cardinality({i \in 1..Len(s) : s[i] = c})

Drop(s, k) == SubSeq(s, k + 1, Len(s))

\* value of a sequence of decimal digits
RECURSIVE DigitsValue(_)
DigitsValue(ds) ==
    IF ds = <<>> THEN 0
    ELSE 10 * DigitsValue(SubSeq(ds, 1, Len(ds) - 1)) + DigitVal(ds[Len(ds)])

\* the characters of s that are not c, in order
RECURSIVE Without(_, _)
Without(s, c) ==
    IF s = <<>> THEN <<>>
    ELSE IF Head(s) = c THEN Without(Tail(s), c)
    ELSE <<Head(s)>> \o Without(Tail(s), c)

Blank == {" ", "\t", "\n"}

\* str.strip(): leading and trailing blanks removed
RECURSIVE LStrip(_)
LStrip(s) == IF s # <<>> /\ Head(s) \in Blank THEN LStrip(Tail(s)) ELSE s

RECURSIVE RStrip(_)
RStrip(s) ==
    IF s # <<>> /\ s[Len(s)] \in Blank THEN RStrip(SubSeq(s, 1, Len(s) - 1)) ELSE s

strip(s) == RStrip(LStrip(s))

\* s with an optional leading sign removed
Unsigned(s, signs) == IF s # <<>> /\ Head(s) \in signs THEN Tail(s) ELSE s

Sign(s) == IF s # <<>> /\ Head(s) = "-" THEN -1 ELSE 1

\* re.match(r"^\-?\d+$", v)
re_match_int(v) ==
    LET body == Unsigned(v, {"-"}) IN body # <<>> /\ All(body, Digits)

\* re.match(r"^\-?[\d\.]+$", v)
re_match_float(v) ==
    LET body == Unsigned(v, {"-"}) IN body # <<>> /\ All(body, Digits \cup {"."})

\* int(v) for text: blanks stripped, optional sign, decimal digits
py_int(v) ==
    LET s == strip(v)
        body == Unsigned(s, {"-", "+"})
    IN  IF body # <<>> /\ All(body, Digits)
        THEN Returned(PyInt(Sign(s) * DigitsValue(body)))
        ELSE Raise("ValueError")

\* float(v) for text: blanks stripped, optional sign, digits with at most
\* one decimal point and at least one digit
py_float(v) ==
    LET s == strip(v)
        body == Unsigned(s, {"-", "+"})
        ds == Without(body, ".")
        point == CHOOSE i \in 1..Len(body) : body[i] = "."
        frac == IF Count(body, ".") = 1 THEN Len(body) - point ELSE 0
    IN  IF All(body, Digits \cup {"."}) /\ Count(body, ".") <= 1 /\ ds # <<>>
        THEN Returned(PyFloat(
                 Sign(s) * ((DigitsValue(ds) * Pow10(FracDigits)) \div Pow10(frac))))
        ELSE Raise("ValueError")

try_int(v) ==
    IF re_match_int(v) THEN py_int(v) ELSE Returned(PyStr(v))

try_float(v) ==
    IF re_match_float(v) THEN py_float(v) ELSE Returned(PyStr(v))

\* float(x) as applied by Gauge.set to its argument
to_float(x) ==
    CASE x.t = "int" -> Returned(PyFloat(x.n * Pow10(FracDigits)))
      [] x.t = "float" -> Returned(x)
      [] x.t = "str" -> py_float(x.s)

(***************************************************************************)
(* Text helpers                                                            *)
(***************************************************************************)
First(s, c) == CHOOSE i \in 1..Len(s) : s[i] = c /\ \A j \in 1..(i - 1) : s[j] # c

\* str.split(d): the pieces between occurrences of the one-character d
RECURSIVE split(_, _)
split(s, d) ==
    IF Count(s, d) = 0 THEN <<s>>
    ELSE <<SubSeq(s, 1, First(s, d) - 1)>> \o split(Drop(s, First(s, d)), d)

\* str.split(): the maximal runs of non-blank characters
RECURSIVE split_ws(_)
split_ws(s) ==
    IF s = <<>> THEN <<>>
    ELSE IF Head(s) \in Blank THEN split_ws(Tail(s))
    ELSE LET n == IF \E i \in 1..Len(s) : s[i] \in Blank
                  THEN (CHOOSE i \in 1..Len(s) :
                            s[i] \in Blank /\ \A j \in 1..(i - 1) : s[j] \notin Blank) - 1
                  ELSE Len(s)
         IN  <<SubSeq(s, 1, n)>> \o split_ws(Drop(s, n))

RECURSIVE Join(_, _)
Join(parts, d) ==
    IF parts = <<>> THEN <<>>
    ELSE IF Len(parts) = 1 THEN parts[1]
    ELSE parts[1] \o <<d>> \o Join(Tail(parts), d)

startswith(s, p) == Len(s) >= Len(p) /\ SubSeq(s, 1, Len(p)) = p

\* the text whose splitlines() is the sequence of lines
Text(lines) == Join(lines, "\n")

\* length of the longest prefix of s made of characters of S
RECURSIVE Span(_, _)
Span(s, S) == IF s # <<>> /\ Head(s) \in S THEN 1 + Span(Tail(s), S) ELSE 0

(***************************************************************************)
(* MetricSink: prometheus_client metrics, one entry per label tuple        *)
(***************************************************************************)
NoName == <<>>

Key(metric, resource_type, subtype, name) == <<metric, resource_type, subtype, name>>

Put(f, k, x) == [y \in DOMAIN f \cup {k} |-> IF y = k THEN x ELSE f[y]]

EmptyMap == [y \in {} |-> 0]

\* the running effect of a handler: statements apply in order until one raises
Frame == [sink |-> sink, hval |-> hval, logged |-> logged, exc |-> "none"]

\* Gauge.labels(...).set(x): float(x), then the store
gauge_set(e, k, x) ==
    IF e.exc # "none" THEN e
    ELSE LET f == to_float(x)
         IN  IF f.exc # "none" THEN [e EXCEPT !.exc = f.exc]
             ELSE [e EXCEPT !.sink = Put(e.sink, k, f.val)]

\* Info.labels(...).info({"version": x})
info_set(e, k, x) ==
    IF e.exc # "none" THEN e ELSE [e EXCEPT !.sink = Put(e.sink, k, x)]

log_error(e, msg) ==
    IF e.exc # "none" THEN e ELSE [e EXCEPT !.logged = e.logged \cup {msg}]

throw(e, kind) == IF e.exc # "none" THEN e ELSE [e EXCEPT !.exc = kind]

(***************************************************************************)
(* The __main__ loop: what it catches, and where each exception leads      *)
(***************************************************************************)
Caught == {"ValueError", "APIError"}

Collectors ==
    <<"run_time", "version", "block_age", "height", "chain_stats",
      "in_consensus", "ledger", "peer_book", "hbbft", "balance">>

NoExporter == [docker |-> "unset", miner_name |-> NoName, address |-> NoName]

LoopLog(kind) ==
    IF kind = "ValueError" THEN {"stats loop failed."}
    ELSE IF kind = "APIError" THEN {"stats loop failed with a docker error."}
    ELSE {}

\* Finish with a try/except around the statement group: a caught exception
\* is logged and stats() goes on to the next statement
FinishIsolated(e, x, o, nextpc) ==
    /\ sink' = e.sink
    /\ hval' = e.hval
    /\ logged' = e.logged \cup LoopLog(e.exc)
    /\ raised' = e.exc
    /\ pc' = IF e.exc \in {"none"} \cup Caught THEN nextpc ELSE "terminated"
    /\ exporter' = IF pc' \notin {"sleep", "terminated"} THEN x ELSE NoExporter
    /\ out' = IF pc' \notin {"sleep", "terminated"} THEN o ELSE <<>>
    /\ UNCHANGED <<cycle, tok, coerced>>

\* one statement group of stats() ends with effect e; control goes on to
\* nextpc, or the exception propagates to the except clauses of the loop
Finish(e, x, o, nextpc) ==
    /\ sink' = e.sink
    /\ hval' = e.hval
    /\ logged' = e.logged \cup LoopLog(e.exc)
    /\ raised' = e.exc
    /\ pc' = IF e.exc = "none" THEN nextpc
             ELSE IF e.exc \in Caught THEN "sleep" ELSE "terminated"
    /\ exporter' = IF e.exc = "none" /\ nextpc # "sleep" THEN x ELSE NoExporter
    /\ out' = IF e.exc = "none" /\ nextpc # "sleep" THEN o ELSE <<>>
    /\ UNCHANGED <<cycle, tok, coerced>>

\* exec_run: the command's output lines, or docker.errors.APIError
ExecOk(lines) == [exc |-> "none", lines |-> lines]

ExecFailed == [exc |-> "APIError", lines |-> <<>>]

(***************************************************************************)
(* stats(): MinerExporter() -- get_docker_container, get_facts             *)
(***************************************************************************)
VALIDATOR_CONTAINER_NAME == <<"v", "a", "l", "i", "d", "a", "t", "o", "r">>

\* the first running container whose name starts with container_name
HasPrefixMatch(running, container_name) ==
    \E i \in 1..Len(running) : startswith(running[i], container_name)

\* lookup.get is the outcome of dc.containers.get: "found", "NotFound" or
\* "APIError"; lookup.running is the result of dc.containers.list()
get_docker_container(e, lookup, container_name) ==
    IF lookup.get = "found" THEN e
    ELSE IF lookup.get = "APIError" THEN throw(e, "APIError")
    ELSE IF HasPrefixMatch(lookup.running, container_name) THEN e
    ELSE \* docker_container was never bound: `if docker_container is None`
         throw(e, "UnboundLocalError")

\* number of leading characters of s other than c
RECURSIVE SpanNot(_, _)
SpanNot(s, c) == IF s # <<>> /\ Head(s) # c THEN 1 + SpanNot(Tail(s), c) ELSE 0

\* re.match(r'{([^,]+),"([^"]+)"}.', line): <<matched, group 1, group 2>>
match_key_line(line) ==
    LET r1 == Tail(line)
        klen == SpanNot(r1, ",")
        r2 == Drop(r1, klen)
        r3 == Drop(r2, 2)
        vlen == SpanNot(r3, "\"")
        r4 == Drop(r3, vlen)
    IN  IF /\ line # <<>> /\ Head(line) = "{"
           /\ klen >= 1
           /\ Len(r2) >= 2 /\ r2[1] = "," /\ r2[2] = "\""
           /\ vlen >= 1
           /\ Len(r4) >= 3 /\ r4[1] = "\"" /\ r4[2] = "}" /\ r4[3] # "\n"
        THEN <<TRUE, SubSeq(r1, 1, klen), SubSeq(r3, 1, vlen)>>
        ELSE <<FALSE, <<>>, <<>>>>

\* the loop of get_facts: print_keys[k] = v for every matching line
RECURSIVE parse_print_keys(_, _)
parse_print_keys(lines, print_keys) ==
    IF lines = <<>> THEN print_keys
    ELSE LET m == match_key_line(Head(lines))
         IN  parse_print_keys(Tail(lines),
                 IF m[1] THEN Put(print_keys, m[2], m[3]) ELSE print_keys)

pubkey == <<"p", "u", "b", "k", "e", "y">>

animal_name == <<"a", "n", "i", "m", "a", "l", "_", "n", "a", "m", "e">>

PyNone == [t |-> "none", n |-> 0, s |-> <<>>]

\* dict.get(k): the value, or None
dict_get(d, k) == IF k \in DOMAIN d THEN PyStr(d[k]) ELSE PyNone

\* the value of the last matching line, None when no line matches
RECURSIVE last_matched(_)
last_matched(lines) ==
    IF lines = <<>> THEN PyNone
    ELSE LET m == match_key_line(lines[Len(lines)])
         IN  IF m[1] THEN PyStr(m[3])
             ELSE last_matched(SubSeq(lines, 1, Len(lines) - 1))

\* get_facts without the rebinding of v: "name" receives the v of the loop
get_facts_loop_v(lines) ==
    LET print_keys == parse_print_keys(lines, EmptyMap)
        a == dict_get(print_keys, pubkey)
        f1 == IF a.t # "none" THEN Put(EmptyMap, "address", a) ELSE EmptyMap
    IN  IF dict_get(print_keys, animal_name).t # "none"
        THEN Put(f1, "name", last_matched(lines)) ELSE f1

\* get_facts after the exec: the walrus rebinds v to print_keys.get("pubkey"),
\* and that v is what "name" receives
get_facts(lines) ==
    LET print_keys == parse_print_keys(lines, EmptyMap)
        v == dict_get(print_keys, pubkey)
        f1 == IF v.t # "none" THEN Put(EmptyMap, "address", v) ELSE EmptyMap
    IN  IF dict_get(print_keys, animal_name).t # "none"
        THEN Put(f1, "name", v) ELSE f1

\* __init__ after get_facts: facts["name"], then facts["address"]
init_identity(e, facts) ==
    IF "name" \notin DOMAIN facts \/ "address" \notin DOMAIN facts
    THEN throw(e, "KeyError") ELSE e

\* stats() is entered: MinerExporter.__init__ up to self.docker
Start(lookup) ==
    /\ pc = "start"
    /\ ran' = {}
    /\ Finish(get_docker_container(
                  [sink |-> sink, hval |-> hval, logged |-> {}, exc |-> "none"],
                  lookup, VALIDATOR_CONTAINER_NAME),
              [NoExporter EXCEPT !.docker = "container"], <<>>, "get_facts")

\* __init__: facts = self.get_facts(); self.miner_name; self.address
GetFacts(r) ==
    /\ pc = "get_facts"
    /\ UNCHANGED ran
    /\ LET facts == get_facts(r.lines)
           e == IF r.exc # "none" THEN throw(Frame, r.exc)
                ELSE init_identity(Frame, facts)
           x == IF e.exc = "none"
                THEN [exporter EXCEPT !.miner_name = facts["name"].s,
                                      !.address = facts["address"].s]
                ELSE exporter
       IN  Finish(e, x, r.lines, "system_usage")

\* SYSTEM_USAGE CPU and Memory, from psutil samples
SystemUsage(cpu, mem) ==
    /\ pc = "system_usage"
    /\ UNCHANGED ran
    /\ Finish(gauge_set(gauge_set(Frame,
                  Key("system_usage", "CPU", "", exporter.miner_name), cpu),
                  Key("system_usage", "Memory", "", exporter.miner_name), mem),
              exporter, out, "run_time")

\* time.sleep(UPDATE_PERIOD), then the next iteration of `while True`
Sleep ==
    /\ pc = "sleep"
    /\ cycle < MaxCycles
    /\ pc' = "start"
    /\ cycle' = cycle + 1
    /\ UNCHANGED <<exporter, hval, sink, out, ran, logged, raised, tok, coerced>>

\* a collector of stats() invoked at its place in the fixed order
Invoke(name, e, o, nextpc) ==
    /\ pc = name
    /\ ran' = ran \cup {name}
    /\ Finish(e, exporter, o, nextpc)

(***************************************************************************)
(* Collectors                                                              *)
(***************************************************************************)
\* attrs is a dict with keys among Created, State; a timestamp is "valid"
\* when dateutil parses it and "invalid" when it raises ParserError, a
\* ValueError; delta is (now - timestamp).total_seconds()
collect_container_run_time(e, name, attrs, delta) ==
    LET e1 == IF "Created" \in DOMAIN attrs
              THEN IF attrs.Created = "invalid" THEN throw(e, "ValueError")
                   ELSE gauge_set(e,
                            Key("validator_container_uptime", "create", "", name), delta)
              ELSE e
    IN  IF DOMAIN attrs = {} THEN e
        ELSE IF "State" \in DOMAIN attrs /\ "StartedAt" \in DOMAIN attrs.State
        THEN IF e1.exc = "none" /\ attrs.State.StartedAt = "invalid"
             THEN throw(e1, "ValueError")
             ELSE gauge_set(e1,
                      Key("validator_container_uptime", "start", "", name), delta)
        ELSE e1

\* re.match(r"^\*\s+([\d\.]+)(.*)", line): <<matched, group 1>>
match_version_line(line) ==
    LET r1 == Tail(line)
        ws == Span(r1, Blank)
        r2 == Drop(r1, ws)
        vlen == Span(r2, Digits \cup {"."})
    IN  IF line # <<>> /\ Head(line) = "*" /\ ws >= 1 /\ vlen >= 1
        THEN <<TRUE, SubSeq(r2, 1, vlen)>>
        ELSE <<FALSE, <<>>>>

RECURSIVE collect_miner_version(_, _, _)
collect_miner_version(e, name, lines) ==
    IF lines = <<>> THEN e
    ELSE LET m == match_version_line(Head(lines))
         IN  collect_miner_version(
                 IF m[1]
                 THEN info_set(e, Key("validator_version", "", "", name), PyStr(m[2]))
                 ELSE e,
                 name, Tail(lines))

collect_block_age(e, name, lines) ==
    LET age_val == try_int(Text(lines))
    IN  IF age_val.exc # "none" THEN throw(e, age_val.exc)
        ELSE gauge_set(e, Key("validator_block_age", "BlockAge", "", name), age_val.val)

collect_miner_height(e, name, lines) ==
    LET parts == split_ws(Text(lines))
    IN  IF Len(parts) < 2 THEN throw(e, "IndexError")
        ELSE gauge_set(e, Key("validator_height", "Height", "", name), PyStr(parts[2]))

collect_in_consensus(e, name, lines) ==
    LET incon == IF Text(lines) = <<"t", "r", "u", "e">> THEN 1 ELSE 0
    IN  gauge_set(e, Key("validator_inconsensus", "", "", name), PyInt(incon))

\* safe_get_json: <<effect, JSON or None>>.  resp.status is "ok" (200 with a
\* JSON body), "non200", "SSLError", "ConnectionError", or "malformed" (200
\* with a body for which ret.json() raises JSONDecodeError, a ValueError)
JsonNone == [none |-> TRUE]

safe_get_json(e, resp) ==
    CASE resp.status = "ok" -> <<e, resp.body>>
      [] resp.status = "non200" -> <<log_error(e, "bad status code"), JsonNone>>
      [] resp.status = "malformed" -> <<throw(e, "ValueError"), JsonNone>>
      [] OTHER -> <<log_error(e, "error fetching"), JsonNone>>

\* `not j` for what safe_get_json returns: None and the empty dict are falsy
falsy(j) == "none" \in DOMAIN j \/ DOMAIN j = {}

collect_chain_stats(e, resp1, resp2) ==
    LET h == safe_get_json(e, resp1)
        height == h[2]
        e1 == IF "data" \in DOMAIN height /\ "height" \in DOMAIN height.data
              THEN gauge_set(h[1], Key("chain_stats", "height", "", NoName),
                             PyInt(height.data.height))
              ELSE throw(h[1], "KeyError")
        st == safe_get_json(e1, resp2)
        stats == st[2]
    IN  IF h[1].exc # "none" THEN h[1]
        ELSE IF falsy(height)
        THEN log_error(h[1], "chain height fetch returned empty JSON")
        ELSE IF e1.exc # "none" THEN e1
        ELSE IF st[1].exc # "none" THEN st[1]
        ELSE IF falsy(stats)
        THEN log_error(st[1], "val stats stats fetch returned empty JSON")
        ELSE IF /\ "data" \in DOMAIN stats /\ "staked" \in DOMAIN stats.data
                /\ "count" \in DOMAIN stats.data.staked
        THEN gauge_set(st[1], Key("chain_stats", "staked_validators", "", NoName),
                       PyInt(stats.data.staked.count))
        ELSE throw(st[1], "KeyError")

BalanceScale == 100000000

\* float(balance) / 1e8, to FracDigits places
scaled_balance(balance) ==
    PyFloat((balance \div BalanceScale) * Pow10(FracDigits)
            + (balance % BalanceScale) \div (BalanceScale \div Pow10(FracDigits)))

\* dict.get(k) is truthy, for a dict, a text and a number under k
truthy_dict(j, k) == k \in DOMAIN j /\ DOMAIN j[k] # {}

truthy_text(j, k) == k \in DOMAIN j /\ Len(j[k]) > 0

truthy_number(j, k) == k \in DOMAIN j /\ j[k] # 0

collect_balance(e, name, resp1, resp2) ==
    LET v == safe_get_json(e, resp1)
        api_validators == v[2]
        a == safe_get_json(v[1], resp2)
        api_accounts == a[2]
    IN  IF v[1].exc # "none" THEN v[1]
        ELSE IF falsy(api_validators)
        THEN log_error(v[1], "validator fetch returned empty JSON")
        ELSE IF ~truthy_dict(api_validators, "data")
                \/ ~truthy_text(api_validators.data, "owner")
        THEN log_error(v[1], "could not find validator data owner in json")
        ELSE IF a[1].exc # "none" THEN a[1]
        ELSE IF falsy(api_accounts) THEN a[1]
        ELSE IF ~truthy_dict(api_accounts, "data")
                \/ ~truthy_number(api_accounts.data, "balance")
        THEN a[1]
        ELSE gauge_set(a[1], Key("validator_api_balance", "", "", name),
                 scaled_balance(api_accounts.data.balance))

\* one line of `miner ledger validators --format csv`
ledger_line(e, name, line) ==
    LET c == split(line, ",")
        t == try_float(c[7])
        d == try_float(c[8])
        p == try_float(c[9])
        a == try_float(c[10])
        bad == IF t.exc # "none" THEN t.exc
               ELSE IF d.exc # "none" THEN d.exc
               ELSE IF p.exc # "none" THEN p.exc
               ELSE a.exc
    IN  IF Len(c) = 10 /\ ~(c[1] = <<"n", "a", "m", "e">>
                            /\ c[2] = <<"o", "w", "n", "e", "r", "_",
                                        "a", "d", "d", "r", "e", "s", "s">>)
           /\ name = c[1]
        THEN IF bad # "none" THEN throw(e, bad)
             ELSE gauge_set(gauge_set(gauge_set(gauge_set(gauge_set(e,
                  Key("validator_ledger", "ledger_penalties", "tenure", name), t.val),
                  Key("validator_ledger", "ledger_penalties", "dkg", name), d.val),
                  Key("validator_ledger", "ledger_penalties", "performance", name), p.val),
                  Key("validator_ledger", "ledger_penalties", "total", name), a.val),
                  Key("validator_block_age", "last_heartbeat", "", name), PyStr(c[3]))
        ELSE e

RECURSIVE collect_ledger_validators(_, _, _)
collect_ledger_validators(e, name, lines) ==
    IF lines = <<>> \/ e.exc # "none" THEN e
    ELSE collect_ledger_validators(ledger_line(e, name, Head(lines)), name, Tail(lines))

\* peer_book_line without the test of the first field of a 4-field row
peer_book_line_any4(e, name, line, sessions) ==
    LET c == split(line, ",")
        conns_num == try_int(c[4])
    IN  IF Len(c) = 6
        THEN IF name = c[2] /\ conns_num.val.t = "int"
             THEN <<gauge_set(e, Key("validator_connections", "connections", "", name),
                              conns_num.val), sessions>>
             ELSE <<e, sessions>>
        ELSE IF Len(c) = 4 THEN <<e, sessions + 1>>
        ELSE <<e, sessions>>

\* one line of `miner peer book -s --format csv`: <<effect, sessions>>
peer_book_line(e, name, line, sessions) ==
    LET c == split(line, ",")
        conns_num == try_int(c[4])
    IN  IF Len(c) = 6
        THEN IF conns_num.exc # "none" THEN <<throw(e, conns_num.exc), sessions>>
             ELSE IF name = c[2] /\ conns_num.val.t = "int"
             THEN <<gauge_set(e, Key("validator_connections", "connections", "", name),
                              conns_num.val), sessions>>
             ELSE <<e, sessions>>
        ELSE IF Len(c) = 4
        THEN <<e, IF c[1] # <<"l", "o", "c", "a", "l">> THEN sessions + 1 ELSE sessions>>
        ELSE <<e, sessions>>

RECURSIVE peer_book_lines(_, _, _, _)
peer_book_lines(e, name, lines, sessions) ==
    IF lines = <<>> \/ e.exc # "none" THEN <<e, sessions>>
    ELSE LET r == peer_book_line(e, name, Head(lines), sessions)
         IN  peer_book_lines(r[1], name, Tail(lines), r[2])

collect_peer_book(e, name, lines) ==
    LET r == peer_book_lines(e, name, lines, 0)
    IN  gauge_set(r[1], Key("validator_sessions", "sessions", "", name), PyInt(r[2]))

\* hval[k] = r, where r is the outcome of the expression assigned
hval_set(e, k, r) ==
    IF e.exc # "none" THEN e
    ELSE IF r.exc # "none" THEN throw(e, r.exc)
    ELSE [e EXCEPT !.hval = Put(e.hval, k, r.val)]

\* (hval[k1], hval[k2]) = field.split("/"): unpacking needs two pieces
hval_unpack(e, k1, k2, field) ==
    LET parts == split(field, "/")
    IN  IF e.exc # "none" THEN e
        ELSE IF Len(parts) # 2 THEN throw(e, "ValueError")
        ELSE hval_set(hval_set(e, k1, Returned(PyStr(parts[1]))),
                      k2, Returned(PyStr(parts[2])))

\* hval.get(k, 0)
hval_get(h, k) == IF k \in DOMAIN h THEN h[k] ELSE PyInt(0)

HbbftKey(subtype, name) == Key("validator_hbbft_perf", "hbbft_perf", subtype, name)

\* the eight HBBFT_PERF sets that end every iteration of the line loop
hbbft_emit(e, name) ==
    gauge_set(gauge_set(gauge_set(gauge_set(gauge_set(gauge_set(gauge_set(gauge_set(e,
        HbbftKey("Penalty", name), hval_get(e.hval, "pen_val")),
        HbbftKey("BBA_Total", name), hval_get(e.hval, "bba_tot")),
        HbbftKey("BBA_Votes", name), hval_get(e.hval, "bba_votes")),
        HbbftKey("Seen_Total", name), hval_get(e.hval, "seen_tot")),
        HbbftKey("Seen_Votes", name), hval_get(e.hval, "seen_votes")),
        HbbftKey("BBA_Last", name), hval_get(e.hval, "bba_last_val")),
        HbbftKey("Seen_Last", name), hval_get(e.hval, "seen_last_val")),
        HbbftKey("Tenure", name), hval_get(e.hval, "tenure"))

\* c = [x.strip() for x in line.split(",")]
RECURSIVE strip_all(_)
strip_all(fields) ==
    IF fields = <<>> THEN <<>> ELSE <<strip(Head(fields))>> \o strip_all(Tail(fields))

hbbft_fields(line) == strip_all(split(line, ","))

\* the branch of one line that updates hval
hbbft_parse(e, name, c) ==
    IF Len(c) = 7 /\ name = c[1]
    THEN hval_set(hval_set(hval_set(hval_set(
             hval_unpack(hval_unpack(e, "bba_votes", "bba_tot", c[2]),
                         "seen_votes", "seen_tot", c[3]),
             "bba_last_val", try_float(c[4])),
             "seen_last_val", try_float(c[5])),
             "tenure", try_float(c[6])),
             "pen_val", try_float(c[7]))
    ELSE IF Len(c) = 6 /\ name = c[1]
    THEN hval_set(hval_set(hval_set(
             hval_unpack(hval_unpack(e, "bba_votes", "bba_tot", c[2]),
                         "seen_votes", "seen_tot", c[3]),
             "bba_last_val", try_float(c[4])),
             "seen_last_val", try_float(c[5])),
             "pen_val", try_float(c[6]))
    ELSE e

\* one iteration of the line loop: parse, then always the eight sets
hbbft_line(e, name, line) == hbbft_emit(hbbft_parse(e, name, hbbft_fields(line)), name)

\* hval as a dict created afresh by every call
hval_fresh(e) == [e EXCEPT !.hval = EmptyMap]

\* hval on entry to a call: the default argument, the same dict in every call
hval_at_entry(e) == e

RECURSIVE hbbft_lines(_, _, _)
hbbft_lines(e, name, lines) ==
    IF lines = <<>> \/ e.exc # "none" THEN e
    ELSE hbbft_lines(hbbft_line(e, name, Head(lines)), name, Tail(lines))

collect_hbbft_performance(e, name, lines) == hbbft_lines(hval_at_entry(e), name, lines)

(***************************************************************************)
(* stats(): the collectors in their fixed order                            *)
(***************************************************************************)
\* a collector that starts with self.exec_run(command)
Exec(name, r, e, nextpc) ==
    Invoke(name, IF r.exc # "none" THEN throw(Frame, r.exc) ELSE e, r.lines, nextpc)

CollectContainerRunTime(attrs, delta) ==
    Invoke("run_time",
           collect_container_run_time(Frame, exporter.miner_name, attrs, delta),
           out, "version")

CollectMinerVersion(r) ==
    Exec("version", r, collect_miner_version(Frame, exporter.miner_name, r.lines),
         "block_age")

CollectBlockAge(r) ==
    Exec("block_age", r, collect_block_age(Frame, exporter.miner_name, r.lines),
         "height")

CollectMinerHeight(r) ==
    Exec("height", r, collect_miner_height(Frame, exporter.miner_name, r.lines),
         "chain_stats")

CollectChainStats(resp1, resp2) ==
    Invoke("chain_stats", collect_chain_stats(Frame, resp1, resp2), out, "in_consensus")

CollectInConsensus(r) ==
    Exec("in_consensus", r, collect_in_consensus(Frame, exporter.miner_name, r.lines),
         "ledger")

CollectLedgerValidators(r) ==
    Exec("ledger", r, collect_ledger_validators(Frame, exporter.miner_name, r.lines),
         "peer_book")

CollectPeerBook(r) ==
    Exec("peer_book", r, collect_peer_book(Frame, exporter.miner_name, r.lines),
         "hbbft")

CollectHbbftPerformance(r) ==
    Exec("hbbft", r, collect_hbbft_performance(Frame, exporter.miner_name, r.lines),
         "balance")

\* the last statement of stats(): on return the loop goes to sleep
CollectBalance(resp1, resp2) ==
    Invoke("balance", collect_balance(Frame, exporter.miner_name, resp1, resp2),
           out, "sleep")

(***************************************************************************)
(* The coercion helpers called on their own                                *)
(***************************************************************************)
Pending == [fn |-> "none", exc |-> "none", val |-> PyStr(<<>>)]

Call(fn, r) == [fn |-> fn, exc |-> r.exc, val |-> r.val]

TryInt ==
    /\ coerced = Pending
    /\ coerced' = Call("try_int", try_int(tok))
    /\ UNCHANGED <<loopVars, tok>>

TryFloat ==
    /\ coerced = Pending
    /\ coerced' = Call("try_float", try_float(tok))
    /\ UNCHANGED <<loopVars, tok>>

(***************************************************************************)
(* Inputs: what the container, the validator commands and the chain API    *)
(* may answer                                                              *)
(***************************************************************************)
ADDR1 == <<"A", "1">>

ADDR2 == <<"A", "2">>

bob == <<"b", "o", "b">>

csv(fields) == Join(fields, ",")

Found == [get |-> "found", running |-> <<>>]

Lookups ==
    << Found,
       [get |-> "NotFound", running |-> <<VALIDATOR_CONTAINER_NAME \o <<"_", "1">>>>],
       [get |-> "NotFound", running |-> <<<<"d", "b">>>>],
       [get |-> "NotFound", running |-> <<>>],
       [get |-> "APIError", running |-> <<>>] >>

key_line(k, x) == <<"{">> \o k \o <<",", "\"">> \o x \o <<"\"", "}", ".">>

KeysOf(address) == <<key_line(pubkey, address), key_line(animal_name, bob)>>

PartialKeys ==
    { <<key_line(pubkey, ADDR1)>>, <<key_line(animal_name, bob)>>, <<>> }

Attrs == [Created |-> "valid", State |-> [StartedAt |-> "valid"]]

BadAttrs == [Created |-> "valid", State |-> [StartedAt |-> "invalid"]]

Versions == <<<<"I">>, <<"*", " ", "0", ".", "1", "\t", "p">>>>

ledger_header ==
    csv(<<<<"n", "a", "m", "e">>,
          <<"o", "w", "n", "e", "r", "_", "a", "d", "d", "r", "e", "s", "s">>,
          <<"h">>, <<"s">>, <<"s">>, <<"v">>, <<"t">>, <<"d">>, <<"p">>, <<"t">>>>)

ledger_row(n, tenure) ==
    csv(<<n, <<"o">>, <<"5">>, <<"1">>, <<"s">>, <<"1", ".", "2", ".", "3">>,
          tenure, <<"0", ".", "2">>, <<"0", ".", "3">>, <<"0", ".", "6">>>>)

Ledger ==
    <<ledger_header, ledger_row(bob, <<"0", ".", "4">>),
      ledger_row(ADDR1, <<"0", ".", "1">>), ledger_row(ADDR2, <<"0", ".", "1">>), <<>>>>

peer_header6 == csv(<<<<"a">>, <<"n", "a", "m", "e">>, <<"l">>, <<"c">>, <<"n">>, <<"u">>>>)

peer_self(n, connections) ==
    csv(<<<<"/", "p">>, n, <<"1">>, connections, <<"n">>, <<"2", "s">>>>)

peer_header4 == csv(<<<<"l", "o", "c", "a", "l">>, <<"r">>, <<"p">>, <<"n">>>>)

peer_session == csv(<<<<"/", "i">>, <<"/", "r">>, <<"/", "p">>, bob>>)

peer_listen == <<"/", "i", "p", "4">>

PeerBook ==
    <<peer_header6, peer_self(ADDR1, <<"1", "2">>), peer_self(ADDR2, <<"1", "2">>),
      peer_listen, peer_header4, peer_session, peer_session>>

hbbft_header ==
    csv(<<<<"n", "a", "m", "e">>, <<"b">>, <<"s">>, <<"l">>, <<"l">>, <<"t">>, <<"p">>>>)

hbbft_row7(n, seen, penalty) ==
    csv(<<n, <<"5", "/", "6">>, seen, <<"0">>, <<"1">>, <<"2", ".", "9">>, penalty>>)

hbbft_row6(n) ==
    csv(<<<<" ">> \o n \o <<" ">>, <<" ", "1", "/", "2">>, <<"3", "/", "4">>,
          <<"7">>, <<"8">>, <<"1", ".", "8">>>>)

Hbbft7(n) == <<hbbft_header, hbbft_row7(n, <<"7", "/", "9">>, <<"2", ".", "5">>)>>

HbbftOutputs ==
    { <<>>,
      <<hbbft_header>>,
      <<hbbft_header, hbbft_row6(bob), <<>>>>,
      Hbbft7(ADDR1),
      Hbbft7(ADDR2),
      <<hbbft_row6(ADDR1), csv(<<<<"a">>, <<"b">>, <<"c">>>>)>>,
      <<hbbft_row6(ADDR2)>>,
      <<hbbft_row7(ADDR1, <<"7">>, <<"2", ".", "5">>)>>,
      <<hbbft_row7(ADDR1, <<"7", "/", "9">>, <<"x">>)>>,
      <<hbbft_row7(ADDR1, <<"7", "/", "9">>, <<"1", ".", "2", ".", "3">>)>> }

Response(status, body) == [status |-> status, body |-> body]

Failures ==
    << Response("non200", EmptyMap), Response("ConnectionError", EmptyMap),
       Response("malformed", EmptyMap), Response("ok", EmptyMap),
       Response("ok", [error |-> "x"]) >>

HeightOk(h) == Response("ok", [data |-> [height |-> h]])

StatsOk == Response("ok", [data |-> [staked |-> [count |-> 5]]])

ValidatorOk == Response("ok", [data |-> [owner |-> <<"o">>]])

AccountOk == Response("ok", [data |-> [balance |-> 3 * BalanceScale]])

\* what exec_run may answer: one of the outputs, or docker.errors.APIError
ExecOks(outputs) == {ExecOk(o) : o \in outputs}

\* a loop in which every source can fail; the validator has one key pair
FaultInputs ==
    [ lookups |-> Lookups,
      keys |-> {ExecFailed} \cup ExecOks({KeysOf(ADDR1)} \cup PartialKeys),
      attrs |-> <<Attrs, BadAttrs, EmptyMap>>,
      versions |-> {ExecFailed} \cup ExecOks({Versions}),
      ages |-> ExecOks({<<<<"7">>>>, <<<<"x">>>>}),
      heights |-> ExecOks({<<<<"1", "\t", "\t", "7">>>>, <<<<"7">>>>}),
      chain1 |-> <<HeightOk(100), HeightOk(101)>> \o Failures,
      chain2 |-> <<StatsOk>> \o Failures,
      consensus |-> ExecOks({<<<<"t", "r", "u", "e">>>>}),
      ledgers |-> ExecOks({Ledger, <<ledger_row(ADDR1, <<"1", ".", "2", ".", "3">>)>>}),
      peers |-> ExecOks({PeerBook}),
      hbbfts |-> {ExecFailed} \cup ExecOks({Hbbft7(ADDR1), <<>>}),
      bal1 |-> <<ValidatorOk, Response("non200", EmptyMap)>>,
      bal2 |-> <<AccountOk>> ]

\* a loop whose sources answer, with every shape of HBBFT output and a
\* validator whose key pair may differ from one print_keys to the next
RowInputs ==
    [ lookups |-> <<Found>>,
      keys |-> ExecOks({KeysOf(ADDR1), KeysOf(ADDR2)}),
      attrs |-> <<Attrs>>,
      versions |-> ExecOks({Versions}),
      ages |-> ExecOks({<<<<"7">>>>}),
      heights |-> ExecOks({<<<<"1", "\t", "\t", "7">>>>}),
      chain1 |-> <<HeightOk(100)>>,
      chain2 |-> <<StatsOk>>,
      consensus |-> ExecOks({<<<<"t", "r", "u", "e">>>>, <<<<"f", "a", "l", "s", "e">>>>}),
      ledgers |-> ExecOks({Ledger}),
      peers |-> ExecOks({PeerBook}),
      hbbfts |-> {ExecFailed} \cup ExecOks(HbbftOutputs),
      bal1 |-> <<ValidatorOk>>,
      bal2 |-> <<AccountOk, Response("ok", [data |-> [balance |-> 0]])>> ]

(***************************************************************************)
(* The scrape loop                                                         *)
(***************************************************************************)
Init ==
    /\ pc = "start"
    /\ cycle = 1
    /\ exporter = NoExporter
    /\ hval = EmptyMap
    /\ sink = EmptyMap
    /\ out = <<>>
    /\ ran = {}
    /\ logged = {}
    /\ raised = "none"
    /\ tok = <<>>
    /\ coerced = Pending

\* `while True: try: stats() except ...; time.sleep(UPDATE_PERIOD)`
Scrape(I) ==
    \/ \E i \in DOMAIN I.lookups : Start(I.lookups[i])
    \/ \E r \in I.keys : GetFacts(r)
    \/ SystemUsage(PyFloat(5 * Pow10(FracDigits)), PyFloat(40 * Pow10(FracDigits)))
    \/ \E i \in DOMAIN I.attrs : CollectContainerRunTime(I.attrs[i], PyInt(60))
    \/ \E r \in I.versions : CollectMinerVersion(r)
    \/ \E r \in I.ages : CollectBlockAge(r)
    \/ \E r \in I.heights : CollectMinerHeight(r)
    \/ \E i \in DOMAIN I.chain1, j \in DOMAIN I.chain2 :
           CollectChainStats(I.chain1[i], I.chain2[j])
    \/ \E r \in I.consensus : CollectInConsensus(r)
    \/ \E r \in I.ledgers : CollectLedgerValidators(r)
    \/ \E r \in I.peers : CollectPeerBook(r)
    \/ \E r \in I.hbbfts : CollectHbbftPerformance(r)
    \/ \E i \in DOMAIN I.bal1, j \in DOMAIN I.bal2 : CollectBalance(I.bal1[i], I.bal2[j])
    \/ Sleep

Next == Scrape(FaultInputs)

Spec == Init /\ [][Next]_vars

NextRows == Scrape(RowInputs)

SpecRows == Init /\ [][NextRows]_vars

(***************************************************************************)
(* A loop whose peer book prints any lines                                 *)
(***************************************************************************)
PeerLines ==
    { peer_self(ADDR1, <<"1", "2">>), peer_self(ADDR1, <<"6">>),
      peer_self(ADDR1, <<"x">>), peer_self(ADDR2, <<"7">>),
      peer_header4, peer_session, peer_listen,
      csv(<<<<"a">>, <<"b">>, <<"c">>>>) }

SeqsUpTo(S, n) == UNION {[1..k -> S] : k \in 0..n}

PeerInputs ==
    [ RowInputs EXCEPT
        !.keys = ExecOks({KeysOf(ADDR1)}),
        !.consensus = ExecOks({<<<<"t", "r", "u", "e">>>>}),
        !.peers = ExecOks(SeqsUpTo(PeerLines, MaxPeerRows)),
        !.hbbfts = ExecOks({Hbbft7(ADDR1)}),
        !.bal2 = <<AccountOk>> ]

NextPeer == Scrape(PeerInputs)

SpecPeer == Init /\ [][NextPeer]_vars

(***************************************************************************)
(* Fact resolution applied to any short print_keys output                  *)
(***************************************************************************)
onboarding_key == <<"o", "k">>

KeyLines ==
    { key_line(pubkey, ADDR1), key_line(pubkey, ADDR2), key_line(animal_name, bob),
      key_line(onboarding_key, <<"K", "9">>), <<"{", "x", "}", ".">> }

\* __init__ is about to resolve the facts from what print_keys has answered
InitFacts ==
    /\ pc = "get_facts"
    /\ cycle = 1
    /\ exporter = [NoExporter EXCEPT !.docker = "container"]
    /\ hval = EmptyMap
    /\ sink = EmptyMap
    /\ out \in SeqsUpTo(KeyLines, MaxKeyLines)
    /\ ran = {}
    /\ logged = {}
    /\ raised = "none"
    /\ tok = <<>>
    /\ coerced = Pending

NextFacts == GetFacts(ExecOk(out))

SpecFacts == InitFacts /\ [][NextFacts]_vars

(***************************************************************************)
(* The coercion helpers applied to any short token                         *)
(***************************************************************************)
TokChars == {"0", "1", ".", "-", "x"}

InitCoerce ==
    /\ pc = "start"
    /\ cycle = 1
    /\ exporter = NoExporter
    /\ hval = EmptyMap
    /\ sink = EmptyMap
    /\ out = <<>>
    /\ ran = {}
    /\ logged = {}
    /\ raised = "none"
    /\ tok \in SeqsUpTo(TokChars, MaxTokLen)
    /\ coerced = Pending

NextCoerce == TryInt \/ TryFloat

SpecCoerce == InitCoerce /\ [][NextCoerce]_vars

(***************************************************************************)
(* Properties                                                              *)
(***************************************************************************)
\* the current value under a label tuple (or dict key), None when never set
Val(f, k) == IF k \in DOMAIN f THEN f[k] ELSE PyNone

Range(f) == {f[i] : i \in DOMAIN f}

AllCollectors == Range(Collectors)

CollectorPrefix(k) == {Collectors[i] : i \in 1..k}

\* stats() is left by an exception in this step
Raises == raised' # "none" /\ pc \notin {"sleep", "terminated"} /\ pc' # pc

ChainKeys ==
    {Key("chain_stats", "height", "", NoName),
     Key("chain_stats", "staked_validators", "", NoName)}

\* C6 (as claimed): when a chain-stats fetch fails (the collector logs an
\* error or raises), both chain_stats gauges keep their values, an error is
\* logged and no exception leaves the collector.
C6_ChainStatsAllOrNothing ==
    [][(pc = "chain_stats" /\ pc' # pc /\ (logged' # logged \/ raised' # "none")) =>
          /\ \A k \in ChainKeys : Val(sink', k) = Val(sink, k)
          /\ logged' # logged
          /\ raised' = "none"]_vars

\* C7 (as claimed): when fact resolution yields no identity, no collector
\* runs and nothing is written in that cycle, the failure is logged, and the
\* loop goes on to its sleep, from which the next cycle resolves again.
C7_UnresolvedIdentityDefers ==
    [][(pc = "get_facts" /\ pc' # pc /\ pc' # "system_usage") =>
          /\ sink' = sink /\ ran' = {}
          /\ logged' # {}
          /\ pc' = "sleep"]_vars

Labelled == {k \in DOMAIN sink : k[4] # NoName}

\* C8 (as claimed): once a cycle has resolved the identity and labelled
\* metrics with it, print_keys is not run again and every labelled metric
\* carries that one name.
C8_IdentityResolvedOnce ==
    /\ [](\A k1, k2 \in Labelled : k1[4] = k2[4])
    /\ [][Labelled # {} => ~(pc = "get_facts" /\ pc' # pc)]_vars

(***************************************************************************)
(* HBBFT properties                                                        *)
(***************************************************************************)
\* gauge subtype -> key of hval it is set from
HbbftGauge ==
    [Penalty |-> "pen_val", BBA_Total |-> "bba_tot", BBA_Votes |-> "bba_votes",
     Seen_Total |-> "seen_tot", Seen_Votes |-> "seen_votes",
     BBA_Last |-> "bba_last_val", Seen_Last |-> "seen_last_val", Tenure |-> "tenure"]

HbbftSubtypes == DOMAIN HbbftGauge

\* the HBBFT collector returns normally in this step, having read out'
HbbftReturns == pc = "hbbft" /\ pc' = "balance"

\* line i is a 6- or 7-field row for the identity
IsRowFor(name, line) ==
    LET c == hbbft_fields(line) IN Len(c) \in {6, 7} /\ c[1] = name

RowsFor(name, lines) == {i \in 1..Len(lines) : IsRowFor(name, lines[i])}

\* the fields of the last row for the identity that has one of the given
\* numbers of fields, <<>> when there is none
RECURSIVE LastRow(_, _, _)
LastRow(name, lines, widths) ==
    IF lines = <<>> THEN <<>>
    ELSE LET c == hbbft_fields(lines[Len(lines)])
         IN  IF Len(c) \in widths /\ c[1] = name THEN c
             ELSE LastRow(name, SubSeq(lines, 1, Len(lines) - 1), widths)

\* the gauge of the identity holds what float() makes of the accumulator entry
EmitsCarried(s, h, name, g) ==
    /\ HbbftKey(g, name) \in DOMAIN s
    /\ s[HbbftKey(g, name)] = to_float(hval_get(h, HbbftGauge[g])).val

\* some cycle has parsed a whole row for its identity: pen_val is assigned last
EverMatched == "pen_val" \in DOMAIN hval

\* C3 (as claimed, for outputs that have lines): once a matching row has been
\* parsed, a later pass without a row for the identity leaves every one of
\* the eight gauges at a value taken from a matching row, none at the default.
C3_AllGaugesCarried ==
    [][(HbbftReturns /\ EverMatched /\ out' # <<>>
        /\ RowsFor(exporter.miner_name, out') = {}) =>
          \A g \in HbbftSubtypes :
              /\ HbbftGauge[g] \in DOMAIN hval'
              /\ EmitsCarried(sink', hval', exporter.miner_name, g)]_vars

\* what the last matching row of the output leaves in the accumulator
RowLeaves(h, c) ==
    /\ c # <<>>
    /\ Val(h, "bba_votes") = PyStr(split(c[2], "/")[1])
    /\ Val(h, "bba_tot") = PyStr(split(c[2], "/")[2])
    /\ Val(h, "seen_votes") = PyStr(split(c[3], "/")[1])
    /\ Val(h, "seen_tot") = PyStr(split(c[3], "/")[2])
    /\ Val(h, "bba_last_val") = try_float(c[4]).val
    /\ Val(h, "seen_last_val") = try_float(c[5]).val
    /\ Val(h, "pen_val") = try_float(c[Len(c)]).val

\* C3 (amended): the accumulator keeps the values of the last matching row
\* across cycles.  A pass that returns after reading rows for the identity
\* leaves in it the fields of the last such row, and the tenure of the last
\* 7-field one; a pass that returns without a row for the identity leaves it
\* unchanged and, if the output has a line, sets every gauge from it, Tenure
\* being 0 while no 7-field row has matched; without a line no gauge changes.
C3_AccumulatorCarried ==
    [][HbbftReturns =>
        LET name == exporter.miner_name
            last == LastRow(name, out', {6, 7})
            last7 == LastRow(name, out', {7})
        IN  /\ RowsFor(name, out') = {} => hval' = hval
            /\ RowsFor(name, out') # {} => RowLeaves(hval', last)
            /\ Val(hval', "tenure") =
                 IF last7 = <<>> THEN Val(hval, "tenure") ELSE try_float(last7[6]).val
            /\ out' # <<>> =>
                 \A g \in HbbftSubtypes : EmitsCarried(sink', hval', name, g)
            /\ out' = <<>> => sink' = sink]_vars

\* C3 witness: a cycle after one that parsed a 6-field row has read lines,
\* none for the identity, and the Penalty gauge still holds 1.8, Tenure 0.
C3_Witness ==
    /\ pc = "balance" /\ cycle > 1 /\ out # <<>>
    /\ RowsFor(exporter.miner_name, out) = {}
    /\ Val(sink, HbbftKey("Penalty", exporter.miner_name)) = PyFloat(18 * Pow10(FracDigits - 1))
    /\ Val(sink, HbbftKey("Tenure", exporter.miner_name)) = PyFloat(0)
    /\ "tenure" \notin DOMAIN hval /\ EverMatched

\* C4 (as claimed): a pass without a row for the identity leaves no HBBFT
\* gauge of the identity at a non-zero value.
C4_ResetWhenOutOfGroup ==
    [][(HbbftReturns /\ RowsFor(exporter.miner_name, out') = {}) =>
          \A g \in HbbftSubtypes :
              Val(sink', HbbftKey(g, exporter.miner_name)) \in {PyNone, PyFloat(0)}]_vars

\* C5 (as claimed): whenever the HBBFT collector returns, the eight gauges of
\* the identity hold the accumulator's values, whatever the output was.
C5_AlwaysEmitted ==
    [][HbbftReturns =>
          \A g \in HbbftSubtypes : EmitsCarried(sink', hval', exporter.miner_name, g)]_vars

(***************************************************************************)
(* Peer book properties                                                    *)
(***************************************************************************)
PeerReturns == pc = "peer_book" /\ pc' = "hbbft"

SessionsKey(name) == Key("validator_sessions", "sessions", "", name)

ConnectionsKey(name) == Key("validator_connections", "connections", "", name)

\* an optional minus sign followed by decimal digits only
IsIntegerToken(t) ==
    LET body == IF t # <<>> /\ t[1] = "-" THEN Tail(t) ELSE t
    IN  body # <<>> /\ \A i \in 1..Len(body) : body[i] \in Digits

IntegerValue(t) ==
    IF t[1] = "-" THEN -DigitsValue(Tail(t)) ELSE DigitsValue(t)

\* the number of 4-field lines whose first field is not "local"
SessionRows(lines) ==
    Cardinality({i \in 1..Len(lines) :
        LET c == split(lines[i], ",")
        IN  Len(c) = 4 /\ c[1] # <<"l", "o", "c", "a", "l">>})

\* the connections field of the last 6-field line named after the identity
\* that carries an integer token, <<>> when there is none
RECURSIVE LastConnections(_, _)
LastConnections(name, lines) ==
    IF lines = <<>> THEN <<>>
    ELSE LET c == split(lines[Len(lines)], ",")
         IN  IF Len(c) = 6 /\ c[2] = name /\ IsIntegerToken(c[4]) THEN c[4]
             ELSE LastConnections(name, SubSeq(lines, 1, Len(lines) - 1))

\* C9: when the peer-book collector returns, the session gauge holds the
\* number of 4-field rows whose first field is not "local" (0 included) and
\* was not written before the end of the pass; the connection gauge is
\* written only by a 6-field row named after the identity with an integer
\* connections token, and then holds the integer of the last such row; no
\* other metric changes.
C9_PeerBookDecoded ==
    [][PeerReturns =>
        LET name == exporter.miner_name
            conn == LastConnections(name, out')
        IN  /\ Val(sink', SessionsKey(name))
                 = PyFloat(SessionRows(out') * Pow10(FracDigits))
            /\ Val(peer_book_lines(Frame, name, out', 0)[1].sink, SessionsKey(name))
                 = Val(sink, SessionsKey(name))
            /\ Val(sink', ConnectionsKey(name))
                 = IF conn = <<>> THEN Val(sink, ConnectionsKey(name))
                   ELSE PyFloat(IntegerValue(conn) * Pow10(FracDigits))
            /\ \A k \in (DOMAIN sink \cup DOMAIN sink')
                          \ {SessionsKey(name), ConnectionsKey(name)} :
                   Val(sink', k) = Val(sink, k)]_vars

\* C9 witness: two rows of the identity with 12 and then 6 connections and
\* one session row: 6 connections, 1 session.
C9_Witness ==
    /\ pc = "hbbft"
    /\ out = <<peer_self(ADDR1, <<"1", "2">>), peer_self(ADDR1, <<"6">>), peer_session>>
    /\ Val(sink, ConnectionsKey(ADDR1)) = PyFloat(6 * Pow10(FracDigits))
    /\ Val(sink, SessionsKey(ADDR1)) = PyFloat(Pow10(FracDigits))

(***************************************************************************)
(* Coercion properties                                                     *)
(***************************************************************************)
\* an optional minus sign followed by digits and decimal points only
IsFloatToken(t) ==
    LET body == IF t # <<>> /\ t[1] = "-" THEN Tail(t) ELSE t
    IN  body # <<>> /\ \A i \in 1..Len(body) : body[i] \in Digits \cup {"."}

\* C10 (as claimed): try_int and try_float never raise; try_int returns the
\* integer of an integer token and any other token unchanged; try_float
\* returns a float for every token of digits and decimal points after an
\* optional minus sign, and any other token unchanged.
C10_CoercionTotal ==
    /\ coerced.fn # "none" => coerced.exc = "none"
    /\ coerced.fn = "try_int" =>
           coerced.val = IF IsIntegerToken(tok) THEN PyInt(IntegerValue(tok))
                         ELSE PyStr(tok)
    /\ coerced.fn = "try_float" =>
           IF IsFloatToken(tok) THEN coerced.val.t = "float"
           ELSE coerced.val = PyStr(tok)

(***************************************************************************)
(* Fact resolution properties                                              *)
(***************************************************************************)
\* __init__ leaves get_facts in this step, having read the lines of out
FactsResolve == pc = "get_facts" /\ pc' # pc

\* the lines of the output that set the given key
LinesOf(key, lines) ==
    {i \in 1..Len(lines) : match_key_line(lines[i])[1] /\ match_key_line(lines[i])[2] = key}

\* the value of the last line that sets the given key
ValueOf(key, lines) ==
    LET i == CHOOSE j \in LinesOf(key, lines) : \A k \in LinesOf(key, lines) : k <= j
    IN  match_key_line(lines[i])[3]

\* the matching lines of the output
Matched(lines) == {i \in 1..Len(lines) : match_key_line(lines[i])[1]}

\* the value of the last matching line
LastMatchedValue(lines) ==
    LET i == CHOOSE j \in Matched(lines) : \A k \in Matched(lines) : k <= j
    IN  match_key_line(lines[i])[3]

\* C11 (as claimed): when the identity resolves, the address is the pubkey
\* value and the name is the value of the last line matched in the output:
\* the animal_name value when animal_name is the last key parsed.
C11_NameFromLastMatched ==
    [][(FactsResolve /\ pc' = "system_usage") =>
          /\ exporter'.address = ValueOf(pubkey, out)
          /\ exporter'.miner_name = LastMatchedValue(out)]_vars

\* C11 (amended): the facts hold "address" exactly when the output sets
\* pubkey and "name" exactly when it sets animal_name; the address is the
\* pubkey value, and the name is the pubkey value too wherever the keys stand
\* in the output (None when pubkey is not set).  The identity resolves exactly
\* when both keys are set, with name equal to address; otherwise the
\* constructor raises KeyError.
C11_NameIsPubkey ==
    [][FactsResolve =>
        LET facts == get_facts(out)
            hasPubkey == LinesOf(pubkey, out) # {}
            hasName == LinesOf(animal_name, out) # {}
        IN  /\ "address" \in DOMAIN facts <=> hasPubkey
            /\ "name" \in DOMAIN facts <=> hasName
            /\ hasPubkey => facts["address"] = PyStr(ValueOf(pubkey, out))
            /\ hasName => facts["name"] = IF hasPubkey THEN PyStr(ValueOf(pubkey, out))
                                          ELSE PyNone
            /\ (hasPubkey /\ hasName) =>
                  /\ pc' = "system_usage"
                  /\ exporter'.address = ValueOf(pubkey, out)
                  /\ exporter'.miner_name = ValueOf(pubkey, out)
            /\ ~(hasPubkey /\ hasName) =>
                  /\ pc' = "terminated" /\ raised' = "KeyError"
                  /\ exporter' = NoExporter]_vars

\* C11 witness: animal_name is the last key of the output, after pubkey and
\* the onboarding key, and the resolved name is the pubkey value.
C11_Witness ==
    /\ pc = "system_usage"
    /\ out = <<key_line(pubkey, ADDR1), key_line(onboarding_key, <<"K", "9">>),
               key_line(animal_name, bob)>>
    /\ exporter.miner_name = ADDR1
    /\ exporter.address = ADDR1

====
